---------------------------- MODULE Spec2Model ----------------------------
(***************************************************************************)
(* Model of the discretization engine:                                     *)
(*   - src/delphi/time_discretization_utils.py  (apply_time_frequency,     *)
(*     calculate_sazonality): pure functions over timestamp series;        *)
(*   - src/spated/data_agg.py (DataAggregator): the session object and its *)
(*     five operations.                                                    *)
(*                                                                         *)
(* A timestamp is a record [day, tod]: the day number since 1970-01-01 and *)
(* the ticks since midnight, TicksPerSec ticks in a second (pandas         *)
(* timestamps carry sub-second parts, and Timestamp.replace(hour=0,        *)
(* minute=0, second=0) keeps them).                                        *)
(* A float series element is a record [nan, v]: nan = TRUE is NaN.         *)
(***************************************************************************)
EXTENDS Integers, Sequences, FiniteSets, TLC

VARIABLES
    pure,               \* a call of one of the pure time functions: input, call, result
    max_borders,        \* DataAggregator.max_borders
    events_data,        \* DataAggregator.events_data
    geo_discretization, \* DataAggregator.geo_discretization
    time_indexes,       \* DataAggregator.time_indexes
    events_features,    \* DataAggregator.events_features
    geo_features,       \* DataAggregator.geo_features
    last                \* the last operation called on the session and its outcome

vars == <<pure, max_borders, events_data, geo_discretization, time_indexes,
          events_features, geo_features, last>>

session == <<max_borders, events_data, geo_discretization, time_indexes,
             events_features, geo_features>>

-----------------------------------------------------------------------------
(* Bounds of the model *)

TicksPerSec == 2
MaxSize == 2
MaxWin == 2
MaxFreq == 3
MaxWinLen == 2
MaxLen == 2

-----------------------------------------------------------------------------
(* Integer arithmetic as Python and numpy compute it *)

Min(S) == CHOOSE x \in S : \A y \in S : x <= y
Max(S) == CHOOSE x \in S : \A y \in S : x >= y

\* a // b on integers, b # 0: the floor of the quotient, for either sign of b
PyFloorDiv(a, b) ==
    IF b > 0 THEN a \div b ELSE (0 - a) \div (0 - b)

\* a % b on integers, b # 0: the remainder has the sign of b
PyMod(a, b) == a - b * PyFloorDiv(a, b)

Num(x) == [nan |-> FALSE, v |-> x]
NaN == [nan |-> TRUE, v |-> 0]

\* Series % k: a zero divisor gives NaN, element by element
SeriesMod(s, k) ==
    [i \in DOMAIN s |-> IF k = 0 THEN NaN ELSE Num(PyMod(s[i], k))]

RECURSIVE SumSeq(_)
SumSeq(s) == IF s = <<>> THEN 0 ELSE Head(s) + SumSeq(Tail(s))

\* np.cumsum(window)
CumSum(w) == [i \in DOMAIN w |-> SumSeq(SubSeq(w, 1, i))]

-----------------------------------------------------------------------------
(* Timestamps: the calendar fields pandas reads from one *)

DayTicks == 24 * 60 * 60 * TicksPerSec

\* days since 1970-01-01 of a proleptic Gregorian date
DaysFromCivil(y, m, d) ==
    LET yy == IF m <= 2 THEN y - 1 ELSE y
        era == yy \div 400
        yoe == yy - era * 400
        mp == IF m > 2 THEN m - 3 ELSE m + 9
        doy == (153 * mp + 2) \div 5 + d - 1
        doe == yoe * 365 + yoe \div 4 - yoe \div 100 + doy
    IN era * 146097 + doe - 719468

\* <<year, month, day>> of a day number
CivilFromDays(n) ==
    LET z == n + 719468
        era == z \div 146097
        doe == z - era * 146097
        yoe == (doe - doe \div 1460 + doe \div 36524 - doe \div 146096) \div 365
        doy == doe - (365 * yoe + yoe \div 4 - yoe \div 100)
        mp == (5 * doy + 2) \div 153
        d == doy - (153 * mp + 2) \div 5 + 1
        m == IF mp < 10 THEN mp + 3 ELSE mp - 9
        y == yoe + era * 400
    IN <<IF m <= 2 THEN y + 1 ELSE y, m, d>>

\* the timestamp y-mo-d h:mi:s plus `sub` ticks
Stamp(y, mo, d, h, mi, s, sub) ==
    [day |-> DaysFromCivil(y, mo, d),
     tod |-> ((h * 60 + mi) * 60 + s) * TicksPerSec + sub]

Year(t) == CivilFromDays(t.day)[1]
Month(t) == CivilFromDays(t.day)[2]
\* Timestamp.weekday(): Monday is 0; 1970-01-01 was a Thursday
Weekday(t) == (t.day + 3) % 7
SecondOfMinute(t) == (t.tod \div TicksPerSec) % 60
SubSecond(t) == t.tod % TicksPerSec

\* ts.replace(hour=0, minute=0, second=0): the sub-second part is kept
ReplaceHMS(t) == [day |-> t.day, tod |-> SubSecond(t)]
\* ts.replace(second=0)
ReplaceS(t) == [day |-> t.day, tod |-> t.tod - SecondOfMinute(t) * TicksPerSec]
\* t - timedelta(days=n)
MinusDays(t, n) == [day |-> t.day - n, tod |-> t.tod]

\* a - b, in ticks
Elapsed(a, b) == (a.day - b.day) * DayTicks + (a.tod - b.tod)
Before(a, b) == Elapsed(a, b) < 0

\* ts.min()
SeqMin(s) ==
    LET S == {s[i] : i \in DOMAIN s}
    IN CHOOSE x \in S : \A y \in S : ~Before(y, x)

-----------------------------------------------------------------------------
(* apply_time_frequency *)

Units == {"Y", "M", "W", "D", "H", "m", "s"}

\* (ts - anchor).dt.total_seconds() // k, then // window_size
ElapsedIndex(ts, anchor, k, window_size) ==
    [i \in DOMAIN ts |->
        (Elapsed(ts[i], anchor) \div (k * TicksPerSec)) \div window_size]

\* the index series of `ts` (window_size >= 1), a sequence of integers
apply_time_frequency(ts, window, window_size) ==
    IF ts = <<>> THEN <<>>
    ELSE CASE window = "Y" ->
                LET min_year == Min({Year(ts[i]) : i \in DOMAIN ts})
                IN [i \in DOMAIN ts |-> (Year(ts[i]) - min_year) \div window_size]
           [] window = "M" ->
                LET min_year == Min({Year(ts[i]) : i \in DOMAIN ts})
                IN [i \in DOMAIN ts |->
                       (12 * (Year(ts[i]) - min_year) + Month(ts[i]) - 1)
                           \div window_size]
           [] window = "W" ->
                LET min_day0 == ReplaceHMS(SeqMin(ts))
                    min_day == MinusDays(min_day0, Weekday(min_day0))
                IN ElapsedIndex(ts, min_day, 7 * 24 * 60 * 60, window_size)
           [] window = "D" ->
                ElapsedIndex(ts, ReplaceHMS(SeqMin(ts)), 24 * 60 * 60, window_size)
           [] window = "H" ->
                ElapsedIndex(ts, ReplaceHMS(SeqMin(ts)), 60 * 60, window_size)
           [] window = "m" ->
                ElapsedIndex(ts, ReplaceHMS(SeqMin(ts)), 60, window_size)
           [] window = "s" ->
                \* total_seconds() is not floored here: window_size floors it
                [i \in DOMAIN ts |->
                    Elapsed(ts[i], ReplaceS(SeqMin(ts)))
                        \div (TicksPerSec * window_size)]

-----------------------------------------------------------------------------
(* calculate_sazonality *)

Ok(v) == [ok |-> TRUE, err |-> "", val |-> v]
Raise(e) == [ok |-> FALSE, err |-> e, val |-> <<>>]

\* sazon_idx.astype(int): NaN cannot be cast
AsTypeInt(s) ==
    IF \E i \in DOMAIN s : s[i].nan THEN Raise("IntCastingNaNError")
    ELSE Ok([i \in DOMAIN s |-> s[i].v])

\* the loop without `& sazon_idx.isna()`: a later threshold overwrites
AssignBucketsOverwriting(sazon_idx, sazon_n, cum, n) ==
    [i \in DOMAIN sazon_idx |->
        LET hits == {k \in 1..n : ~sazon_n[i].nan /\ sazon_n[i].v < cum[k]}
        IN IF hits = {} THEN sazon_idx[i] ELSE Num(Max(hits) - 1)]

\* the loop of lines 148-149 after the thresholds 1..n have been applied
RECURSIVE AssignBuckets(_, _, _, _)
AssignBuckets(sazon_idx, sazon_n, cum, n) ==
    IF n = 0 THEN sazon_idx
    ELSE LET prev == AssignBuckets(sazon_idx, sazon_n, cum, n - 1)
         IN [i \in DOMAIN prev |->
                IF (~sazon_n[i].nan /\ sazon_n[i].v < cum[n]) /\ prev[i].nan
                THEN Num(n - 1) ELSE prev[i]]

\* the uniform rule with the period left undivided: (unitary // window) % frequency
UniformIndexUndivided(unitary, window, frequency) ==
    IF window = 0 THEN Raise("ZeroDivisionError")
    ELSE AsTypeInt(SeriesMod([i \in DOMAIN unitary |-> PyFloorDiv(unitary[i], window)],
                             frequency))

\* window is an int: (unitary // window) % (frequency // window)
UniformIndex(unitary, window, frequency) ==
    IF window = 0 THEN Raise("ZeroDivisionError")
    ELSE AsTypeInt(SeriesMod([i \in DOMAIN unitary |-> PyFloorDiv(unitary[i], window)],
                             PyFloorDiv(frequency, window)))

\* window is a list
VariableIndex(unitary, window, frequency) ==
    LET sazon_n == SeriesMod(unitary, frequency)
        blank == [i \in DOMAIN unitary |-> NaN]
    IN AsTypeInt(AssignBuckets(blank, sazon_n, CumSum(window), Len(window)))

\* mode is "int" or "list"
calculate_sazonality(ts, sazonality_type, mode, window, frequency) ==
    IF sazonality_type \notin Units THEN Raise("UnboundLocalError")
    ELSE LET unitary_sazonality == apply_time_frequency(ts, sazonality_type, 1)
         IN IF mode = "int"
            THEN UniformIndex(unitary_sazonality, window, frequency)
            ELSE VariableIndex(unitary_sazonality, window, frequency)

-----------------------------------------------------------------------------
(* Calls of the pure functions: the inputs they are checked on *)

DocFrequency == 7

\* the timestamps of the docstring examples (lines 35-37 and 124-126)
DocExample ==
    <<Stamp(2022, 1, 1, 0, 0, 0, 0), Stamp(2022, 1, 4, 0, 0, 0, 0),
      Stamp(2022, 1, 10, 0, 0, 0, 0), Stamp(2022, 12, 31, 0, 0, 0, 0)>>

\* 2021-12-27 and 2022-01-03 are Mondays, 2022-01-01 a Saturday
StampPool ==
    {Stamp(2021, 12, 27, 0, 0, 0, 0), Stamp(2021, 12, 27, 0, 0, 0, TicksPerSec - 1),
     Stamp(2022, 1, 1, 23, 59, 59, TicksPerSec - 1), Stamp(2022, 1, 3, 0, 0, 0, 0),
     Stamp(2022, 1, 3, 0, 1, 1, 0), Stamp(2022, 1, 10, 12, 30, 0, 0)}

SeqsUpTo(S, n) == UNION {[1..k -> S] : k \in 0..n}

TsInputs == (SeqsUpTo(StampPool, MaxLen) \ {<<>>}) \cup {DocExample}

UnitPool == Units \cup {"S"}
CalcUnitPool == {"D", "s", "M"}
WindowPool == (0 - 1)..MaxWin
FrequencyPool == ((0 - 1)..MaxFreq) \cup {DocFrequency}
WindowListPool == SeqsUpTo(WindowPool, MaxWinLen)

NoCall ==
    [fn |-> "none", unit |-> "", size |-> 0, window |-> 0, windows |-> <<>>,
     frequency |-> 0]

InitPure == pure \in {[ts |-> s, call |-> NoCall, res |-> Ok(<<>>)] : s \in TsInputs}

IdlePure == pure = [ts |-> <<>>, call |-> NoCall, res |-> Ok(<<>>)]

\* apply_time_frequency(ts, unit, size)
CallApplyTimeFrequency ==
    /\ pure.call.fn = "none" /\ pure.ts # <<>>
    /\ \E unit \in Units, size \in 1..MaxSize :
          pure' = [pure EXCEPT
                     !.call = [NoCall EXCEPT !.fn = "apply_time_frequency",
                                             !.unit = unit, !.size = size],
                     !.res = Ok(apply_time_frequency(pure.ts, unit, size))]
    /\ UNCHANGED <<session, last>>

\* calculate_sazonality(ts, unit, window, frequency), window an int
CallCalculateUniform ==
    /\ pure.call.fn = "none" /\ pure.ts # <<>>
    /\ \E unit \in UnitPool, window \in WindowPool, frequency \in FrequencyPool :
          pure' = [pure EXCEPT
                     !.call = [NoCall EXCEPT !.fn = "calculate_uniform",
                                             !.unit = unit, !.window = window,
                                             !.frequency = frequency],
                     !.res = calculate_sazonality(pure.ts, unit, "int", window,
                                                  frequency)]
    /\ UNCHANGED <<session, last>>

\* calculate_sazonality(ts, unit, window, frequency), window a list
CallCalculateVariable ==
    /\ pure.call.fn = "none" /\ pure.ts # <<>>
    /\ \E unit \in CalcUnitPool, windows \in WindowListPool,
          frequency \in FrequencyPool :
          pure' = [pure EXCEPT
                     !.call = [NoCall EXCEPT !.fn = "calculate_variable",
                                             !.unit = unit, !.windows = windows,
                                             !.frequency = frequency],
                     !.res = calculate_sazonality(pure.ts, unit, "list", windows,
                                                  frequency)]
    /\ UNCHANGED <<session, last>>

NextPure == CallApplyTimeFrequency \/ CallCalculateUniform \/ CallCalculateVariable

-----------------------------------------------------------------------------
(* The session: DataAggregator                                             *)
(*                                                                         *)
(* Geometry is sampled on the points of a small grid: a polygon is the set *)
(* of grid points it contains, an event or a graph node lies on one grid   *)
(* point.  The session's reference frame is "session"; "none" is a table   *)
(* without reference-frame metadata, "other" a table in another frame.     *)

MaxCoord == 1
MaxTimeCols == 2
MaxFeatures == 1
MaxRows == 3
MaxCalls == 3
MaxCells == 3
MaxRawId == 2

World == (0..MaxCoord) \X (0..MaxCoord)
Null == 0 - 1
NoStamp == [day |-> 0, tod |-> 0]

\* __init__ (lines 26-33): the fields start empty or None
NoBorders == [isNone |-> TRUE, geom |-> {}, crs |-> "none"]
NoEvents ==
    [isNone |-> TRUE, crs |-> "none", raw |-> FALSE, hasTs |-> FALSE,
     feats |-> <<>>, tcols |-> <<>>, hasG |-> FALSE, rows |-> <<>>]
NoGeo ==
    [isNone |-> TRUE, kind |-> "", crs |-> "none", hasCenter |-> FALSE,
     rows |-> <<>>, covs |-> <<>>]

Fresh ==
    [mb |-> NoBorders, ev |-> NoEvents, gd |-> NoGeo, ti |-> <<>>, ef |-> <<>>,
     gf |-> <<>>]

\* what a call leaves: the session, and the error it raised ("" for none), the
\* source line that raised it, whether that line is a raise statement of the
\* operation itself, whether the reference-frame warning was printed and whether
\* the seasonality index computation was entered
Done(S, warned) ==
    [S |-> S, err |-> "", line |-> 0, explicit |-> FALSE, warned |-> warned,
     computed |-> FALSE]
Fail(S, e, line, explicit, warned) ==
    [S |-> S, err |-> e, line |-> line, explicit |-> explicit, warned |-> warned,
     computed |-> FALSE]

\* hasattr(self, "events_data"): __init__ always sets the attribute (line 32)
HasAttrEventsData(S) == TRUE

Xs(P) == {p[1] : p \in P}
Ys(P) == {p[2] : p \in P}

\* the rectangle (minx, miny)-(maxx, maxy) around a set of points
BoundingBox(P) ==
    IF P = {} THEN {}
    ELSE {p \in World : /\ Min(Xs(P)) <= p[1] /\ p[1] <= Max(Xs(P))
                        /\ Min(Ys(P)) <= p[2] /\ p[2] <= Max(Ys(P))}

Cross(o, a, b) == (a[1] - o[1]) * (b[2] - o[2]) - (a[2] - o[2]) * (b[1] - o[1])

InTriangle(p, a, b, c) ==
    LET d == {Cross(p, a, b), Cross(p, b, c), Cross(p, c, a)}
    IN /\ ~((\E x \in d : x < 0) /\ (\E x \in d : x > 0))
       /\ p \in BoundingBox({a, b, c})

\* .convex_hull: a point of the hull lies in a triangle of three of the points
ConvexHull(P) == {p \in World : \E a, b, c \in P : InTriangle(p, a, b, c)}

EventPoints(ev) == {ev.rows[i].geom : i \in DOMAIN ev.rows}

Borders(geom, crs) == [isNone |-> FALSE, geom |-> geom, crs |-> crs]

\* data: [given, geom, crs]; method: "rectangle", "convex" or "" (None)
add_max_borders(S, data, method) ==
    IF data.given
    THEN IF data.crs = "none"
         THEN Done([S EXCEPT !.mb = Borders(data.geom, "none")], TRUE)
         ELSE IF data.crs # "session"
         THEN Done([S EXCEPT !.mb = Borders(data.geom, "session")], FALSE)
         ELSE Done([S EXCEPT !.mb = Borders(data.geom, data.crs)], FALSE)
    ELSE IF method = "rectangle"
    THEN IF ~HasAttrEventsData(S) THEN Fail(S, "AttributeError", 69, TRUE, FALSE)
         ELSE IF S.ev.isNone THEN Fail(S, "AttributeError", 72, FALSE, FALSE)
         ELSE Done([S EXCEPT !.mb = Borders(BoundingBox(EventPoints(S.ev)),
                                            "session")], FALSE)
    ELSE IF method = "convex"
    THEN IF ~HasAttrEventsData(S) THEN Fail(S, "AttributeError", 86, TRUE, FALSE)
         ELSE IF S.ev.isNone THEN Fail(S, "AttributeError", 88, FALSE, FALSE)
         ELSE Done([S EXCEPT !.mb = Borders(ConvexHull(EventPoints(S.ev)),
                                            "session")], FALSE)
    ELSE Fail(S, "ValueError", 105, TRUE, FALSE)

-----------------------------------------------------------------------------
(* add_events_data *)

\* sort_values('ts'): rows in ascending ts, equal ts in their given order
RECURSIVE SortByTs(_)
SortByTs(rows) ==
    IF rows = <<>> THEN <<>>
    ELSE LET i == CHOOSE i \in DOMAIN rows :
                    /\ \A j \in DOMAIN rows : ~Before(rows[j].ts, rows[i].ts)
                    /\ \A j \in 1..(i - 1) : Before(rows[i].ts, rows[j].ts)
         IN <<rows[i]>> \o SortByTs(SubSeq(rows, 1, i - 1)
                                    \o SubSeq(rows, i + 1, Len(rows)))

\* the columns an input table has besides its coordinates or geometry
InputColumns == {"when", "f", "tdiscr_1"}

\* table: [crs, rows], a row [geom, when]; a plain DataFrame has crs "df".
\* datetime_col is "" for None.
add_events_data(S, table, datetime_col, feature_cols) ==
    LET \* lines 149-162: every input ends in the session frame
        rows0 == [i \in DOMAIN table.rows |->
                    [idx |-> i - 1, geom |-> table.rows[i].geom, ts |-> NoStamp,
                     g |-> Null, t |-> <<>>]]
        ev0 == [isNone |-> FALSE, crs |-> "session", raw |-> TRUE, hasTs |-> FALSE,
                feats |-> <<>>, tcols |-> <<>>, hasG |-> FALSE, rows |-> rows0]
        S0 == [S EXCEPT !.ev = ev0]
        \* lines 165-171
        rows1 == SortByTs([i \in DOMAIN rows0 |->
                             [rows0[i] EXCEPT !.ts = table.rows[i].when]])
        ev1 == IF datetime_col = "" THEN ev0
               ELSE [ev0 EXCEPT !.hasTs = TRUE, !.rows = rows1]
        \* line 174
        S1 == [S EXCEPT !.ev = ev1, !.ef = S.ef \o feature_cols]
        \* lines 175-178
        ev2 == [ev1 EXCEPT !.raw = FALSE, !.feats = feature_cols]
    IN IF datetime_col # "" /\ datetime_col \notin InputColumns
       THEN Fail(S0, "KeyError", 166, FALSE, FALSE)
       ELSE IF \E i \in DOMAIN feature_cols : feature_cols[i] \notin InputColumns
       THEN Fail(S1, "KeyError", 176, FALSE, FALSE)
       ELSE Done([S1 EXCEPT !.ev = ev2], FALSE)

-----------------------------------------------------------------------------
(* add_time_discretization *)

\* calculate_seasonality, imported at data_agg.py line 8 from the package's own
\* time_discretization_utils: the function of src/delphi under its later name
calculate_seasonality(ts, seasonality_type, mode, window, frequency) ==
    calculate_sazonality(ts, seasonality_type, mode, window, frequency)

\* apply_custom_time_events(ts, time_disc_df, nan_idx=0): the bin the table
\* gives a timestamp, nan_idx for a timestamp it does not hold
apply_custom_time_events(ts, time_disc_df, nan_idx) ==
    [i \in DOMAIN ts |->
        IF \E k \in DOMAIN time_disc_df : time_disc_df[k].ts = ts[i]
        THEN time_disc_df[CHOOSE k \in DOMAIN time_disc_df :
                             time_disc_df[k].ts = ts[i]].bin
        ELSE nan_idx]

\* line 228: the name of the i-th candidate column
TdiscrName(i) == "tdiscr_" \o ToString(i)

\* the columns the event table took from its input: the feature columns kept by
\* lines 176-178, every input column while the table is still unfiltered
TakenColumns(ev) ==
    IF ev.raw THEN InputColumns ELSE {ev.feats[k] : k \in DOMAIN ev.feats}

\* the column name search without its loop: always the first name
NewColumnFirst(ev) == 1

\* lines 226-232: the first i with no column tdiscr_i in the event table, be it a
\* column of an earlier call or a column of the input
NewColumn(ev) ==
    Min({i \in 1..(Len(ev.tcols) + Cardinality(TakenColumns(ev)) + 1) :
            /\ \A k \in DOMAIN ev.tcols : ev.tcols[k] # i
            /\ TdiscrName(i) \notin TakenColumns(ev)})

TsColumn(ev) == [i \in DOMAIN ev.rows |-> ev.rows[i].ts]

\* self.events_data[t_col] = values
WithColumn(ev, t_col, values) ==
    [ev EXCEPT !.tcols = Append(@, t_col),
               !.rows = [i \in DOMAIN ev.rows |->
                           [ev.rows[i] EXCEPT !.t = Append(@, values[i])]]]

\* the check with its operands exchanged
UniformInvalidSwapped(window, frequency) ==
    frequency # 0 /\ PyMod(window, frequency) # 0

\* line 245
UniformInvalid(window, frequency) == PyMod(frequency, window) # 0
\* line 247: sum(window) != frequency != 0
VariableInvalid(window, frequency) ==
    SumSeq(window) # frequency /\ frequency # 0

\* st: [custom, unit, table]; mode "int" (window an int) or "list" (windows)
add_time_discretization(S, st, mode, window, windows, frequency) ==
    IF S.ev.isNone THEN Fail(S, "AttributeError", 223, TRUE, FALSE)
    ELSE
    LET t_col == NewColumn(S.ev)
        S1 == [S EXCEPT !.ti = Append(@, t_col)]
    IN IF st.custom
       THEN IF ~S.ev.hasTs THEN Fail(S1, "KeyError", 238, FALSE, FALSE)
            ELSE Done([S1 EXCEPT !.ev = WithColumn(S.ev, t_col,
                          apply_custom_time_events(TsColumn(S.ev), st.table, 0))],
                      FALSE)
       ELSE IF mode = "int" /\ window = 0
       THEN Fail(S, "ZeroDivisionError", 245, FALSE, FALSE)
       ELSE IF mode = "int" /\ UniformInvalid(window, frequency)
       THEN Fail(S, "ValueError", 246, TRUE, FALSE)
       ELSE IF mode = "list" /\ VariableInvalid(windows, frequency)
       THEN Fail(S, "ValueError", 248, TRUE, FALSE)
       ELSE IF ~S.ev.hasTs THEN Fail(S1, "KeyError", 253, FALSE, FALSE)
       ELSE LET r == calculate_seasonality(TsColumn(S.ev), st.unit, mode,
                                           IF mode = "int" THEN window ELSE windows,
                                           frequency)
            IN IF r.ok
               THEN [Done([S1 EXCEPT !.ev = WithColumn(S.ev, t_col, r.val)], FALSE)
                       EXCEPT !.computed = TRUE]
               ELSE [Fail(S1, r.err, 252, FALSE, FALSE) EXCEPT !.computed = TRUE]

-----------------------------------------------------------------------------
(* add_geo_discretization *)

Cell(id, geom, neighbors) == [id |-> id, geom |-> geom, neighbors |-> neighbors]

GeoTable(kind, crs, rows) ==
    [isNone |-> FALSE, kind |-> kind, crs |-> crs, hasCenter |-> FALSE,
     rows |-> rows, covs |-> <<>>]

\* the slice 0..n-1 of the span lo..hi that holds the sample point c
Slice(c, lo, hi, n) == ((2 * (c - lo) + 1) * n) \div (2 * (hi - lo + 1))

\* rectangle_discretization(gdf, nx, ny): the regular nx x ny grid over the
\* bounding box of the borders, ids row-major, 4-connected
rectangle_discretization(mb, nx, ny) ==
    LET B == BoundingBox(mb.geom)
        GridCell(k) ==
            LET i == k % nx
                j == k \div nx
                nb == {<<i - 1, j>>, <<i + 1, j>>, <<i, j - 1>>, <<i, j + 1>>}
                ok == {q \in nb : q[1] \in 0..(nx - 1) /\ q[2] \in 0..(ny - 1)}
                ids == {q[2] * nx + q[1] : q \in ok}
            IN Cell(k,
                    {p \in B : /\ Slice(p[1], Min(Xs(B)), Max(Xs(B)), nx) = i
                               /\ Slice(p[2], Min(Ys(B)), Max(Ys(B)), ny) = j},
                    [n \in 1..Cardinality(ids) |->
                        CHOOSE x \in ids : Cardinality({y \in ids : y < x}) = n - 1])
    IN GeoTable("R", mb.crs, [k \in 1..(nx * ny) |-> GridCell(k - 1)])

\* the rows of `rows` in ascending id (dissolve(by='id') sorts by its key)
RECURSIVE SortById(_)
SortById(rows) ==
    IF rows = <<>> THEN <<>>
    ELSE LET i == CHOOSE i \in DOMAIN rows :
                    \A j \in DOMAIN rows : rows[i].id <= rows[j].id
         IN <<rows[i]>> \o SortById(SubSeq(rows, 1, i - 1)
                                    \o SubSeq(rows, i + 1, Len(rows)))

\* the elements of s at the positions where keep is TRUE, in order
RECURSIVE FilterSeq(_, _)
FilterSeq(s, keep) ==
    IF s = <<>> THEN <<>>
    ELSE (IF Head(keep) THEN <<Head(s)>> ELSE <<>>)
             \o FilterSeq(Tail(s), Tail(keep))

\* lines 317-329: each hexagon cut to the borders, the empty ones dropped, one row
\* per raw id in ascending raw id
ClipToBorders(tess, mb) ==
    LET cut == [i \in DOMAIN tess |-> [tess[i] EXCEPT !.geom = @ \cap mb.geom]]
    IN SortById(FilterSeq(cut, [i \in DOMAIN cut |-> cut[i].geom # {}]))

\* line 332: raw id -> row position
corr_index_dict(rows) == [r \in {rows[i].id : i \in DOMAIN rows} |->
                            (CHOOSE i \in DOMAIN rows : rows[i].id = r) - 1]

\* line 337: `if corr_index_dict.get(n)`: a missing key gives None, and None
\* and 0 are both false
Truthy(d, n) == n \in DOMAIN d /\ d[n] # 0

\* lines 334-339
RECURSIVE RewriteNeighbors(_, _)
RewriteNeighbors(n_list, d) ==
    IF n_list = <<>> THEN <<>>
    ELSE (IF Truthy(d, Head(n_list)) THEN <<d[Head(n_list)]>> ELSE <<>>)
             \o RewriteNeighbors(Tail(n_list), d)

\* the reindexing that rewrites the neighbors and keeps the raw ids
HexReindexKeepingRawIds(rows) ==
    [i \in DOMAIN rows |->
        Cell(rows[i].id, rows[i].geom,
             RewriteNeighbors(rows[i].neighbors, corr_index_dict(rows)))]

\* lines 331-343: the row position becomes the id
HexReindex(rows) ==
    [i \in DOMAIN rows |->
        Cell(i - 1, rows[i].geom,
             RewriteNeighbors(rows[i].neighbors, corr_index_dict(rows)))]

\* two cells that are not disjoint: they share a point or touch
NotDisjoint(a, b) ==
    \E p \in a, q \in b :
        /\ p[1] - q[1] \in {0 - 1, 0, 1}
        /\ p[2] - q[2] \in {0 - 1, 0, 1}

\* the ids of the rows at the positions where keep is TRUE, in row order
IdsWhere(rows, keep) == FilterSeq([i \in DOMAIN rows |-> rows[i].id], keep)

\* lines 350-351, 377-378: ids in input order
CustomRows(custom_data) ==
    [i \in DOMAIN custom_data.rows |-> Cell(i - 1, custom_data.rows[i], <<>>)]

\* lines 362-370
CustomNeighbors(rows) ==
    [i \in DOMAIN rows |->
        [rows[i] EXCEPT !.neighbors =
            IdsWhere(rows, [k \in DOMAIN rows |->
                              /\ NotDisjoint(rows[k].geom, rows[i].geom)
                              /\ rows[k].id # rows[i].id])]]

RECURSIVE Flatten(_)
Flatten(ss) == IF ss = <<>> THEN <<>> ELSE Head(ss) \o Flatten(Tail(ss))

\* gpd.sjoin(events, cells, how='left', op='within'): one row for each cell the
\* event's point is within, one row with a null id for an event within none
JoinWithin(ev, cells) ==
    Flatten([i \in DOMAIN ev.rows |->
        LET hits == IdsWhere(cells, [k \in DOMAIN cells |->
                                       ev.rows[i].geom \in cells[k].geom])
        IN IF hits = <<>> THEN <<[ev.rows[i] EXCEPT !.g = Null]>>
           ELSE [k \in DOMAIN hits |-> [ev.rows[i] EXCEPT !.g = hits[k]]]])

Dist2(p, q) == (p[1] - q[1]) * (p[1] - q[1]) + (p[2] - q[2]) * (p[2] - q[2])

\* the one point of a node's geometry
NodePoint(c) == CHOOSE p \in c.geom : TRUE

\* gpd.sjoin_nearest(events, nodes, how="left"): one row for each node at the
\* least distance from the event; the node id is in field g
JoinNearest(ev, nodes) ==
    Flatten([i \in DOMAIN ev.rows |->
        LET d == [k \in DOMAIN nodes |->
                    Dist2(ev.rows[i].geom, NodePoint(nodes[k]))]
            hits == IdsWhere(nodes, [k \in DOMAIN nodes |->
                                       \A j \in DOMAIN nodes : d[k] <= d[j]])
        IN IF hits = <<>> THEN <<[ev.rows[i] EXCEPT !.g = Null]>>
           ELSE [k \in DOMAIN hits |-> [ev.rows[i] EXCEPT !.g = hits[k]]]])

\* line 400: the distinct non-null values of a sequence, in order of first
\* occurrence
RECURSIVE Unique(_)
Unique(s) ==
    IF s = <<>> THEN <<>>
    ELSE LET u == Unique(SubSeq(s, 1, Len(s) - 1))
             x == s[Len(s)]
         IN IF x = Null \/ \E k \in DOMAIN u : u[k] = x THEN u ELSE Append(u, x)

\* lines 400-402: node id -> position among the first occurrences
NodeIndex(rows) ==
    LET u == Unique([i \in DOMAIN rows |-> rows[i].g])
    IN [i \in DOMAIN rows |->
          IF rows[i].g = Null THEN rows[i]
          ELSE [rows[i] EXCEPT !.g = (CHOOSE k \in DOMAIN u : u[k] = rows[i].g) - 1]]

\* lines 406-408: drop_duplicates(subset=["index"], keep="first")
RECURSIVE DropDuplicates(_)
DropDuplicates(rows) ==
    IF rows = <<>> THEN <<>>
    ELSE LET d == DropDuplicates(SubSeq(rows, 1, Len(rows) - 1))
             r == rows[Len(rows)]
         IN IF \E k \in DOMAIN d : d[k].idx = r.idx THEN d ELSE Append(d, r)

\* lines 411-414
NullOutside(rows, mb) ==
    [i \in DOMAIN rows |->
        IF rows[i].geom \in mb.geom THEN rows[i] ELSE [rows[i] EXCEPT !.g = Null]]

\* lines 389-414
GraphAssign(ev, nodes, mb) ==
    [ev EXCEPT !.crs = "session", !.hasG = TRUE,
               !.rows = NullOutside(DropDuplicates(NodeIndex(
                            JoinNearest(ev, nodes))), mb)]

\* lines 353-360, 380-387: a custom table is brought to the session frame
CustomTable(kind, custom_data) ==
    GeoTable(kind, "session", CustomRows(custom_data))

\* lines 422-434: the centroids, then the events joined to the cells
PolygonTail(S, gd) ==
    LET gd1 == [gd EXCEPT !.hasCenter = TRUE]
    IN IF gd.crs = "none"
       THEN Fail([S EXCEPT !.gd = gd], "ValueError", 423, FALSE, FALSE)
       ELSE IF S.ev.isNone
       THEN Fail([S EXCEPT !.gd = gd1], "AttributeError", 429, FALSE, FALSE)
       ELSE Done([S EXCEPT !.gd = gd1,
                           !.ev = [S.ev EXCEPT !.hasG = TRUE,
                                               !.rows = JoinWithin(S.ev, gd1.rows)]],
                 FALSE)

\* p: [nx, ny, tess, given, custom_data]: rect_discr_param_x and _y, the table the
\* tessellation generator returns for hex_discr_param, and custom_data if given
add_geo_discretization(S, discr_type, p) ==
    IF S.mb.isNone THEN Fail(S, "ValueError", 300, TRUE, FALSE)
    ELSE IF discr_type = "R"
    THEN PolygonTail(S, rectangle_discretization(S.mb, p.nx, p.ny))
    ELSE IF discr_type = "H"
    THEN PolygonTail(S, GeoTable("H", S.mb.crs,
                                 HexReindex(ClipToBorders(p.tess, S.mb))))
    ELSE IF discr_type = "C"
    THEN IF ~p.given THEN Fail(S, "ValueError", 348, TRUE, FALSE)
         ELSE LET gd == CustomTable("C", p.custom_data)
                  r == PolygonTail(S, [gd EXCEPT !.rows = CustomNeighbors(@)])
              IN [r EXCEPT !.warned = (p.custom_data.crs = "none")]
    ELSE IF discr_type = "G"
    THEN IF ~p.given THEN Fail(S, "ValueError", 375, TRUE, FALSE)
         ELSE LET gd == CustomTable("G", p.custom_data)
                  w == p.custom_data.crs = "none"
              IN IF S.ev.isNone
                 THEN Fail([S EXCEPT !.gd = gd], "AttributeError", 391, FALSE, w)
                 ELSE Done([S EXCEPT !.gd = gd,
                                     !.ev = GraphAssign(S.ev, gd.rows, S.mb)], w)
    ELSE Fail(S, "ValueError", 420, TRUE, FALSE)

-----------------------------------------------------------------------------
(* add_geo_variable *)

\* addRegressorUniformDistribution: each cell gets, of every polygon of the
\* layer, the share of its value that the overlap is of the polygon; a cell no
\* polygon overlaps gets no value.  Shares are in units of 1/Scale(layer).
RECURSIVE Scale(_)
Scale(polys) ==
    IF polys = <<>> THEN 1
    ELSE Cardinality(Head(polys).geom) * Scale(Tail(polys))

RECURSIVE Share(_, _, _)
Share(geom, polys, scale) ==
    IF polys = <<>> THEN 0
    ELSE IF Head(polys).geom = {} THEN Share(geom, Tail(polys), scale)
    ELSE (Head(polys).value * Cardinality(geom \cap Head(polys).geom) * scale)
             \div Cardinality(Head(polys).geom)
         + Share(geom, Tail(polys), scale)

addRegressorUniformDistribution(rows, polys) ==
    [i \in DOMAIN rows |->
        IF \A k \in DOMAIN polys : rows[i].geom \cap polys[k].geom = {}
        THEN [absent |-> TRUE, num |-> 0, den |-> 1]
        ELSE [absent |-> FALSE, num |-> Share(rows[i].geom, polys, Scale(polys)),
              den |-> Scale(polys)]]

\* data: [crs, cols, polys], a polygon [geom, value]
add_geo_variable(S, data) ==
    LET w == data.crs = "none"
        S1 == [S EXCEPT !.gf = @ \o data.cols]
    IN IF S.gd.isNone THEN Fail(S1, "TypeError", 463, FALSE, w)
       ELSE IF S.gd.crs = "none" THEN Fail(S1, "AttributeError", 464, FALSE, w)
       ELSE Done([S1 EXCEPT !.gd.covs =
                     Append(@, addRegressorUniformDistribution(S.gd.rows,
                                                               data.polys))], w)

-----------------------------------------------------------------------------
(* The operations as steps of a session *)

Cur ==
    [mb |-> max_borders, ev |-> events_data, gd |-> geo_discretization,
     ti |-> time_indexes, ef |-> events_features, gf |-> geo_features]

NoArgs ==
    [custom |-> FALSE, unit |-> "", mode |-> "", window |-> 0, windows |-> <<>>,
     frequency |-> 0, method |-> "", discr |-> "", given |-> FALSE, cells |-> 0,
     tess |-> <<>>]

NoLast ==
    [op |-> "none", err |-> "", line |-> 0, explicit |-> FALSE, warned |-> FALSE,
     computed |-> FALSE, a |-> NoArgs, n |-> 0]

\* the call `op` with arguments `a` ended as r; n counts the calls up to MaxCalls
Returns(r, op, a) ==
    /\ max_borders' = r.S.mb
    /\ events_data' = r.S.ev
    /\ geo_discretization' = r.S.gd
    /\ time_indexes' = r.S.ti
    /\ events_features' = r.S.ef
    /\ geo_features' = r.S.gf
    /\ last' = [op |-> op, err |-> r.err, line |-> r.line, explicit |-> r.explicit,
                warned |-> r.warned, computed |-> r.computed, a |-> a,
                n |-> IF last.n < MaxCalls THEN last.n + 1 ELSE last.n]
    /\ UNCHANGED pure

InitSession ==
    /\ max_borders = Fresh.mb
    /\ events_data = Fresh.ev
    /\ geo_discretization = Fresh.gd
    /\ time_indexes = Fresh.ti
    /\ events_features = Fresh.ef
    /\ geo_features = Fresh.gf
    /\ last = NoLast

NoData == [given |-> FALSE, geom |-> {}, crs |-> "none"]

\* add_max_borders(data) with data of the pool, or add_max_borders(method=...)
SetBorders(geoms, methods) ==
    \/ \E g \in geoms, c \in {"none", "session", "other"} :
          Returns(add_max_borders(Cur, [given |-> TRUE, geom |-> g, crs |-> c], ""),
                  "add_max_borders", [NoArgs EXCEPT !.given = TRUE])
    \/ \E m \in methods :
          Returns(add_max_borders(Cur, NoData, m),
                  "add_max_borders", [NoArgs EXCEPT !.method = m])

\* add_events_data(table, datetime_col, feature_cols=...)
SetEvents(tables, datetime_cols, feature_lists) ==
    \E tb \in tables, c \in {"df", "none", "session", "other"},
       dt \in datetime_cols, fc \in feature_lists :
        /\ Len(events_features) + Len(fc) <= MaxFeatures
        /\ Returns(add_events_data(Cur, [crs |-> c, rows |-> tb], dt, fc),
                   "add_events_data", [NoArgs EXCEPT !.given = dt # ""])

\* add_time_discretization(unit, window, frequency), window an int
AddTimeUniform(units, windows, frequencies) ==
    \E u \in units, w \in windows, f \in frequencies :
        /\ Len(time_indexes) < MaxTimeCols
        /\ Returns(add_time_discretization(
                       Cur, [custom |-> FALSE, unit |-> u, table |-> <<>>],
                       "int", w, <<>>, f),
                   "add_time_discretization",
                   [NoArgs EXCEPT !.unit = u, !.mode = "int", !.window = w,
                                  !.frequency = f])

\* add_time_discretization(unit, window, frequency), window a list
AddTimeVariable(units, lists, frequencies) ==
    \E u \in units, w \in lists, f \in frequencies :
        /\ Len(time_indexes) < MaxTimeCols
        /\ Returns(add_time_discretization(
                       Cur, [custom |-> FALSE, unit |-> u, table |-> <<>>],
                       "list", 0, w, f),
                   "add_time_discretization",
                   [NoArgs EXCEPT !.unit = u, !.mode = "list", !.windows = w,
                                  !.frequency = f])

\* add_time_discretization(table): the custom mapping
AddTimeCustom(custom_tables) ==
    \E tb \in custom_tables :
        /\ Len(time_indexes) < MaxTimeCols
        /\ Returns(add_time_discretization(
                       Cur, [custom |-> TRUE, unit |-> "", table |-> tb],
                       "int", 1, <<>>, 1),
                   "add_time_discretization", [NoArgs EXCEPT !.custom = TRUE])

NoParams ==
    [nx |-> 1, ny |-> 1, tess |-> <<>>, given |-> FALSE,
     custom_data |-> [crs |-> "none", rows |-> <<>>]]

\* the call does not grow the event table past the model's bound
WithinRows(r) == Len(r.S.ev.rows) <= MaxRows

AddGeoRect(sizes) ==
    \E nx \in sizes, ny \in sizes :
        LET r == add_geo_discretization(Cur, "R",
                                        [NoParams EXCEPT !.nx = nx, !.ny = ny])
        IN WithinRows(r)
           /\ Returns(r, "add_geo_discretization", [NoArgs EXCEPT !.discr = "R"])

AddGeoHex(tessellations) ==
    \E t \in tessellations :
        LET r == add_geo_discretization(Cur, "H", [NoParams EXCEPT !.tess = t])
        IN WithinRows(r)
           /\ Returns(r, "add_geo_discretization",
                      [NoArgs EXCEPT !.discr = "H", !.cells = Len(t), !.tess = t])

\* discr_type "C" or "G" with custom_data, or without it
AddGeoCustom(kinds, layers) ==
    \E k \in kinds :
        \/ \E rows \in layers[k], c \in {"none", "session", "other"} :
              LET r == add_geo_discretization(
                           Cur, k,
                           [NoParams EXCEPT !.given = TRUE,
                                            !.custom_data = [crs |-> c,
                                                             rows |-> rows]])
              IN WithinRows(r)
                 /\ Returns(r, "add_geo_discretization",
                            [NoArgs EXCEPT !.discr = k, !.given = TRUE])
        \/ Returns(add_geo_discretization(Cur, k, NoParams),
                   "add_geo_discretization", [NoArgs EXCEPT !.discr = k])

AddGeoUnknown ==
    Returns(add_geo_discretization(Cur, "X", NoParams),
            "add_geo_discretization", [NoArgs EXCEPT !.discr = "X"])

AddGeoCovariate(layers) ==
    \E d \in layers, c \in {"none", "session", "other"} :
        /\ Len(geo_features) + 1 <= MaxFeatures
        /\ Returns(add_geo_variable(Cur, [crs |-> c, cols |-> <<"v">>, polys |-> d]),
                   "add_geo_variable", NoArgs)

-----------------------------------------------------------------------------
(* The inputs of the sessions *)

P00 == <<0, 0>>
P10 == <<1, 0>>
P01 == <<0, 1>>
P11 == <<1, 1>>

\* two events given out of time order, and one event
TwoEvents == <<[geom |-> P00, when |-> DocExample[2]],
               [geom |-> P11, when |-> DocExample[1]]>>
OneEvent == <<[geom |-> P10, when |-> DocExample[3]]>>

CustomTimeTable == <<[ts |-> DocExample[1], bin |-> 2]>>

\* a tessellation of the world: the k-th cell is the k-th point; raw ids are any
\* distinct numbers, each cell lists the raw ids of all the other cells
CellPoints == <<P00, P10, P01, P11>>

Injective(f) == \A i, j \in DOMAIN f : i # j => f[i] # f[j]

Tessellation(ids) ==
    [k \in DOMAIN ids |->
        Cell(ids[k], {CellPoints[k]},
             FilterSeq(ids, [j \in DOMAIN ids |-> j # k]))]

Tessellations ==
    {Tessellation(ids) : ids \in {f \in [1..MaxCells -> 0..MaxRawId] :
                                     Injective(f)}}

BorderGeoms == {World, {P00, P10, P01}, {P10, P01}, {P11}}

\* custom polygon layers: a partition, two overlapping polygons, none
PolygonLayers == {<<{P00, P10}, {P01, P11}>>, <<{P00, P10}, {P00, P01}>>, <<>>}
\* graph nodes: two equidistant from P00, and three of which one is never nearest
NodeLayers == {<<{P10}, {P01}>>, <<{P11}, {P11}, {P00}>>, <<{P01}>>}

CovariateLayers == {<<[geom |-> {P00, P10}, value |-> 2]>>}

-----------------------------------------------------------------------------
(* Specifications *)

\* the pure functions on their inputs
InitP == InitPure /\ InitSession
SpecPure == InitP /\ [][NextPure]_vars

Init == IdlePure /\ InitSession

\* a session of at most MaxCalls calls of any of the operations
Call ==
    \/ SetBorders({World, {P00, P10}}, {"rectangle", "convex", ""})
    \/ SetEvents({TwoEvents}, {"", "when", "missing"}, {<<>>, <<"f">>, <<"g">>})
    \/ AddTimeUniform({"D"}, {1, 2}, {0, 3})
    \/ AddTimeVariable({"D"}, {<<1, 2>>}, {0, 3})
    \/ AddTimeCustom({CustomTimeTable})
    \/ AddGeoRect({1, 2})
    \/ AddGeoHex({Tessellation(<<1, 0>>)})
    \/ AddGeoCustom({"C", "G"},
                    [k \in {"C", "G"} |->
                        IF k = "C" THEN PolygonLayers ELSE NodeLayers])
    \/ AddGeoUnknown
    \/ AddGeoCovariate(CovariateLayers)

Next == last.n < MaxCalls /\ Call

Spec == Init /\ [][Next]_vars

\* window lists of positive sizes that sum to no more than the largest frequency
TimeWindowLists ==
    {w \in SeqsUpTo(1..MaxWin, MaxWinLen) : SumSeq(w) <= MaxFreq}

\* setting events and adding time discretizations
NextTime ==
    \/ SetEvents({TwoEvents, OneEvent, <<>>}, {"", "when"}, {<<>>, <<"tdiscr_1">>})
    \/ AddTimeUniform({"D"}, (0 - 1)..MaxWin, 0..MaxFreq)
    \/ AddTimeVariable({"D"}, TimeWindowLists, 0..MaxFreq)
    \/ AddTimeCustom({CustomTimeTable})

SpecTime == Init /\ [][NextTime]_vars

\* borders, events and the polygon tables
NextGeo ==
    \/ SetBorders(BorderGeoms, {"rectangle"})
    \/ SetEvents({TwoEvents}, {""}, {<<>>})
    \/ AddGeoHex(Tessellations)
    \/ AddGeoCustom({"C"}, [k \in {"C"} |-> PolygonLayers])

SpecGeo == Init /\ [][NextGeo]_vars

-----------------------------------------------------------------------------
(* Properties of the pure functions (checked under SpecPure) *)

Unitary == apply_time_frequency(pure.ts, pure.call.unit, 1)

UniformCall == pure.call.fn = "calculate_uniform" /\ pure.call.unit \in Units

\* every value is in [0, frequency/window) and is (u // window) % (frequency // window)
UniformResult ==
    /\ pure.res.ok
    /\ DOMAIN pure.res.val = DOMAIN pure.ts
    /\ \A i \in DOMAIN pure.ts :
          /\ 0 <= pure.res.val[i]
          /\ pure.res.val[i] < pure.call.frequency \div pure.call.window
          /\ pure.res.val[i] =
                (Unitary[i] \div pure.call.window)
                    % (pure.call.frequency \div pure.call.window)

DocUniformCall ==
    /\ pure.ts = DocExample
    /\ pure.call.fn = "calculate_uniform" /\ pure.call.unit = "D"
    /\ pure.call.window = 1 /\ pure.call.frequency = DocFrequency

\* C1 as stated: for every window >= 1 with frequency % window = 0 the uniform
\* index of each event is (u // window) % (frequency // window), an integer in
\* [0, frequency/window), and the docstring example gives [0, 3, 2, 0].
C1_UniformAnyFrequency ==
    /\ (/\ UniformCall /\ pure.call.window >= 1
        /\ PyMod(pure.call.frequency, pure.call.window) = 0) => UniformResult
    /\ DocUniformCall => pure.res.val = <<0, 3, 2, 0>>

\* C1, amended: the same for every window >= 1 and every frequency >= 1 with
\* frequency % window = 0.
C1_UniformPositiveFrequency ==
    /\ (/\ UniformCall /\ pure.call.window >= 1 /\ pure.call.frequency >= 1
        /\ PyMod(pure.call.frequency, pure.call.window) = 0) => UniformResult
    /\ DocUniformCall => pure.res.val = <<0, 3, 2, 0>>

C1_DocExampleComputed == DocUniformCall /\ pure.res.val = <<0, 3, 2, 0>>

VariableCall == pure.call.fn = "calculate_variable" /\ pure.call.unit \in Units

\* every event has the smallest bucket i whose cumulative threshold exceeds its
\* residual, so every value is in [0, len(window))
VariableResult ==
    /\ pure.res.ok
    /\ DOMAIN pure.res.val = DOMAIN pure.ts
    /\ \A i \in DOMAIN pure.ts :
          LET residual == PyMod(Unitary[i], pure.call.frequency)
              c == CumSum(pure.call.windows)
              v == pure.res.val[i]
          IN /\ 0 <= v /\ v < Len(pure.call.windows)
             /\ residual < c[v + 1]
             /\ \A j \in 1..v : ~(residual < c[j])

\* C2 as stated: for every window list with sum(window) = frequency each event
\* is assigned, once, the smallest i with (u % frequency) < c_i, so that every
\* output is in [0, len(window)).
C2_VariableAnyFrequency ==
    (VariableCall /\ SumSeq(pure.call.windows) = pure.call.frequency)
        => VariableResult

\* C2, amended: the same for every window list with sum(window) = frequency and
\* frequency >= 1.
C2_VariablePositiveFrequency ==
    (/\ VariableCall /\ SumSeq(pure.call.windows) = pure.call.frequency
     /\ pure.call.frequency >= 1) => VariableResult

\* an event past the first threshold of a list that sums to the frequency
C2_LaterBucketAssigned ==
    /\ VariableCall /\ SumSeq(pure.call.windows) = pure.call.frequency
    /\ pure.call.frequency >= 1 /\ Len(pure.call.windows) >= 2
    /\ pure.res.ok
    /\ \E i \in DOMAIN pure.res.val : pure.res.val[i] >= 1

\* 00:00 of the Monday of the week that holds t
MondayMidnight(t) == [day |-> t.day - Weekday(t), tod |-> 0]

\* the whole 7-day periods from the Monday of the minimum's week to ts[i]
WholeWeeks(ts, i) == Elapsed(ts[i], MondayMidnight(SeqMin(ts))) \div (7 * DayTicks)

\* C3: for unit week the window index of each timestamp t is
\* floor(W(t) / windowSize), W(t) the whole 7-day periods between 00:00 of the
\* Monday of the week of the minimum timestamp and t; it is non-negative,
\* non-decreasing in t and 0 for the minimum; the docstring example gives
\* [0, 1, 2, 52].
C3_WeekIndexFromMonday ==
    (pure.call.fn = "apply_time_frequency" /\ pure.call.unit = "W") =>
        /\ \A i \in DOMAIN pure.ts :
              /\ pure.res.val[i] = WholeWeeks(pure.ts, i) \div pure.call.size
              /\ pure.res.val[i] >= 0
              /\ pure.ts[i] = SeqMin(pure.ts) => pure.res.val[i] = 0
        /\ \A i, j \in DOMAIN pure.ts :
              Before(pure.ts[i], pure.ts[j]) => pure.res.val[i] <= pure.res.val[j]
        /\ (pure.ts = DocExample /\ pure.call.size = 1)
              => pure.res.val = <<0, 1, 2, 52>>

-----------------------------------------------------------------------------
(* Properties of add_time_discretization (checked under SpecTime) *)

TimeCall(mode) ==
    /\ last.op = "add_time_discretization" /\ ~last.a.custom /\ last.a.mode = mode
    /\ ~events_data.isNone

\* C4: every variable-mode call with sum(window) # frequency on a session with
\* events raises the ValidationError of line 248, for every frequency, 0
\* included, and the seasonality index computation is not entered.
C4_VariableMismatchRejected ==
    (TimeCall("list") /\ SumSeq(last.a.windows) # last.a.frequency) =>
        /\ last.err = "ValueError" /\ last.line = 248 /\ last.explicit
        /\ ~last.computed

\* C5: a uniform-mode call with frequency % window # 0 on a session with events
\* raises the ValidationError of line 246 before any index is computed: the event
\* table gets no tdiscr column and the list of time-bin column names is unchanged.
C5_UniformRejectedUntouched ==
    [][(/\ last'.op = "add_time_discretization" /\ ~last'.a.custom
        /\ last'.a.mode = "int" /\ ~events_data.isNone
        /\ last'.a.window # 0
        /\ PyMod(last'.a.frequency, last'.a.window) # 0)
       => (/\ last'.err = "ValueError" /\ last'.line = 246 /\ last'.explicit
           /\ ~last'.computed
           /\ events_data' = events_data
           /\ time_indexes' = time_indexes)]_vars

\* frequency 3 is no multiple of window 2: rejected, on a session with events
C5_RejectedCall ==
    /\ TimeCall("int") /\ last.a.window = 2 /\ last.a.frequency = 3
    /\ last.err = "ValueError" /\ last.line = 246
    /\ Len(events_data.rows) > 0

-----------------------------------------------------------------------------
(* Properties of the session (checked under Spec) *)

\* C6: a call of any operation that fails leaves the whole session state as it
\* was before the call.
C6_FailureLeavesSession ==
    [][(last'.n # last.n /\ last'.err # "") => session' = session]_vars

\* the raise statements that report a skipped step: lines 69 and 86 (events
\* before border estimation), 223 (events before time discretization), 300
\* (borders before geo discretization)
PreconditionRaise(lines) == last.err # "" /\ last.explicit /\ last.line \in lines

\* C7: a call whose required prior step was skipped raises the dedicated
\* PreconditionError from its explicit check: add_geo_discretization without
\* borders, add_time_discretization without events, add_geo_discretization
\* without events, add_max_borders by an estimation method without events.
C7_PreconditionErrorRaised ==
    /\ (last.op = "add_geo_discretization" /\ max_borders.isNone)
          => PreconditionRaise({300})
    /\ (last.op = "add_time_discretization" /\ events_data.isNone)
          => PreconditionRaise({223})
    /\ (/\ last.op = "add_geo_discretization" /\ ~max_borders.isNone
        /\ events_data.isNone /\ last.a.discr \in {"R", "H"})
          => (last.err # "" /\ last.explicit)
    /\ (/\ last.op = "add_max_borders" /\ last.a.method \in {"rectangle", "convex"}
        /\ events_data.isNone)
          => PreconditionRaise({69, 86})

PolygonDone ==
    /\ last.op = "add_geo_discretization" /\ last.a.discr \in {"R", "H", "C"}
    /\ last.err = ""

\* C8: after a polygon-based geo discretization the event table has exactly one
\* row per input event, with at most one cell id: null or the id of one cell that
\* holds the event's point.
C8_OneRowPerEvent ==
    PolygonDone =>
        /\ \A i, j \in DOMAIN events_data.rows :
              events_data.rows[i].idx = events_data.rows[j].idx => i = j
        /\ \A i \in DOMAIN events_data.rows :
              LET r == events_data.rows[i]
                  holds == {k \in DOMAIN geo_discretization.rows :
                              r.geom \in geo_discretization.rows[k].geom}
              IN IF holds = {} THEN r.g = Null
                 ELSE \E k \in holds : geo_discretization.rows[k].id = r.g

GraphDone ==
    /\ last.op = "add_geo_discretization" /\ last.a.discr = "G" /\ last.err = ""

\* C9: after GraphNode discretization the stored table holds exactly the nodes
\* matched by an event, under the compact ids written to gdiscr: every non-null
\* gdiscr is the id of a table row, and that row is a node nearest to the event.
C9_GraphTableCompact ==
    GraphDone =>
        /\ \A i \in DOMAIN events_data.rows :
              LET r == events_data.rows[i]
              IN r.g # Null =>
                    \E k \in DOMAIN geo_discretization.rows :
                        /\ geo_discretization.rows[k].id = r.g
                        /\ \A j \in DOMAIN geo_discretization.rows :
                              Dist2(r.geom, NodePoint(geo_discretization.rows[k]))
                                <= Dist2(r.geom, NodePoint(geo_discretization.rows[j]))
        /\ \A k \in DOMAIN geo_discretization.rows :
              \E i \in DOMAIN events_data.rows :
                  events_data.rows[i].g = geo_discretization.rows[k].id

-----------------------------------------------------------------------------
(* Properties of the polygon tables (checked under SpecGeo) *)

\* C10: the ids of a table made by Hexagonal partitioning, whatever raw ids the
\* clipping dropped, and of a CustomPolygon table, are 0..N-1 in row order.
C10_ContiguousIds ==
    (~geo_discretization.isNone /\ geo_discretization.kind \in {"H", "C"}) =>
        \A i \in DOMAIN geo_discretization.rows :
            geo_discretization.rows[i].id = i - 1

\* a tessellation of three cells of which the borders keep two
C10_ClippedTable ==
    /\ last.op = "add_geo_discretization" /\ last.a.discr = "H"
    /\ last.a.cells = 3
    /\ geo_discretization.kind = "H" /\ Len(geo_discretization.rows) = 2

-----------------------------------------------------------------------------
(* Properties of the time-bin columns (checked under SpecTime) *)

\* the names tdiscr_n that the search of lines 226-232 can reach
TdiscrNames(ev) ==
    {TdiscrName(i) : i \in 1..(Len(ev.tcols) + Cardinality(TakenColumns(ev)) + 1)}

\* the event table took no column named tdiscr_n from its input
NoTdiscrInput == TakenColumns(events_data) \cap TdiscrNames(events_data) = {}

\* a successful add_time_discretization on events that were set, the k-th since
\* then, creates column tdiscr_k and nothing else: the table then holds
\* tdiscr_1..tdiscr_k, and the rows, the earlier time-bin values and every
\* other column are as before
TimeColumnStep(pre) ==
    (/\ last'.op = "add_time_discretization" /\ last'.err = ""
     /\ ~events_data.isNone /\ ~events_data.raw /\ pre)
    => LET k == Len(events_data.tcols) + 1
       IN /\ events_data'.tcols = Append(events_data.tcols, k)
          /\ \A i \in 1..k : events_data'.tcols[i] = i
          /\ DOMAIN events_data'.rows = DOMAIN events_data.rows
          /\ \A i \in DOMAIN events_data.rows :
                /\ Len(events_data'.rows[i].t) = k
                /\ events_data'.rows[i] =
                      [events_data.rows[i] EXCEPT
                          !.t = Append(@, events_data'.rows[i].t[k])]
          /\ [events_data' EXCEPT !.tcols = events_data.tcols,
                                  !.rows = events_data.rows] = events_data

\* C11 as stated: after k successful add_time_discretization calls since the
\* events were last set the event table holds exactly the time-bin columns
\* tdiscr_1..tdiscr_k, the i-th call having created tdiscr_i; each call adds one
\* column and leaves every earlier time-bin column and every other column as
\* it was.
C11_TimeColumnsNumbered == [][TimeColumnStep(TRUE)]_vars

\* C11, amended: the same when the event table as set holds no column named
\* tdiscr_n of its own.
C11_TimeColumnsNumberedFreshNames == [][TimeColumnStep(NoTdiscrInput)]_vars

\* two successful calls on a table of events with no tdiscr_n input column
C11_TwoColumnsAdded ==
    /\ last.op = "add_time_discretization" /\ last.err = ""
    /\ ~events_data.raw /\ events_data.feats = <<>>
    /\ events_data.tcols = <<1, 2>>
    /\ Len(events_data.rows) = 2
    /\ \A i \in DOMAIN events_data.rows : Len(events_data.rows[i].t) = 2

-----------------------------------------------------------------------------
(* Properties of the reference frames (checked under Spec) *)

\* C12: in every state reached by calls of add_max_borders, add_events_data and
\* add_geo_discretization the borders, the event table and the discretization
\* table, once stored, carry the session CRS: none is left without a CRS or in
\* another one.
C12_StoredTablesInSessionFrame ==
    /\ ~max_borders.isNone => max_borders.crs = "session"
    /\ ~events_data.isNone => events_data.crs = "session"
    /\ ~geo_discretization.isNone => geo_discretization.crs = "session"

-----------------------------------------------------------------------------
(* Properties of the hexagon neighbors (checked under SpecGeo) *)

HexDone ==
    /\ last.op = "add_geo_discretization" /\ last.a.discr = "H" /\ last.err = ""
    /\ ~geo_discretization.isNone /\ geo_discretization.kind = "H"

\* the k-th cell of the tessellation has a part inside the borders
Survived(k) == last.a.tess[k].geom \cap max_borders.geom # {}

\* the raw id r is the id of a cell that survived the clipping
RawSurvived(r) ==
    \E k \in DOMAIN last.a.tess : last.a.tess[k].id = r /\ Survived(k)

\* the row of the stored table that holds the k-th cell of the tessellation
RowOf(k) ==
    CHOOSE i \in DOMAIN geo_discretization.rows :
        geo_discretization.rows[i].geom = last.a.tess[k].geom \cap max_borders.geom

\* the raw -> new id table read off the stored table
NewIdOf(r) ==
    geo_discretization.rows[
        RowOf(CHOOSE k \in DOMAIN last.a.tess : last.a.tess[k].id = r)].id

\* the raw neighbor ids of the k-th cell that survived, under the new ids
SurvivingNeighbors(k) ==
    LET n_list == last.a.tess[k].neighbors
        kept == FilterSeq(n_list, [j \in DOMAIN n_list |-> RawSurvived(n_list[j])])
    IN [j \in DOMAIN kept |-> NewIdOf(kept[j])]

\* C13: after Hexagonal partitioning the neighbor list of every surviving cell
\* is the image, under the raw -> new id table, of its raw neighbor ids that
\* survived the clipping: a neighbor is dropped if and only if its raw id did
\* not survive (the cell with new id 0 is kept as a neighbor too), so that
\* adjacency symmetric in the tessellation is symmetric in the table.
C13_NeighborsAreSurvivors ==
    HexDone =>
        /\ \A k \in DOMAIN last.a.tess :
              Survived(k) =>
                 geo_discretization.rows[RowOf(k)].neighbors = SurvivingNeighbors(k)
        /\ \A i, j \in DOMAIN geo_discretization.rows :
              LET has(a, b) ==
                    \E x \in DOMAIN geo_discretization.rows[a].neighbors :
                        geo_discretization.rows[a].neighbors[x]
                            = geo_discretization.rows[b].id
              IN has(i, j) <=> has(j, i)

=============================================================================
